---- MODULE Spec2Model ----
(***************************************************************************)
(* Model of sparkx: the JETSCAPE event-file loader (JetscapeLoader), the   *)
(* particle record it builds (Particle), the state the loader keeps        *)
(* between load calls, and the reaction-plane flow estimator               *)
(* (ReactionPlaneFlow).                                                    *)
(*                                                                         *)
(* A file is a sequence of lines.  A line is a record whose kind says      *)
(* which of the substrings the loader tests for ('#', 'sigmaGen', 'Event', *)
(* 'weight', 'N_hadrons', 'N_partons') it contains, and which carries the  *)
(* tokens the loader reads from it.  Numeric tokens are modelled by the    *)
(* numbers they denote.                                                    *)
(*                                                                         *)
(* There is one specification per object: Spec (a loader and its load      *)
(* calls), SpecInit (the construction of a loader from a path),            *)
(* SpecParticle (a Particle, its construction, setters and getters) and    *)
(* SpecFlow (a ReactionPlaneFlow and its calls).  The variables of the     *)
(* objects a specification is not about keep their idle values.            *)
(***************************************************************************)
EXTENDS Integers, Sequences, FiniteSets, TLC

VARIABLES file, optional_arguments_, particle_type_,
          particle_type_defining_string_, num_output_per_event_,
          num_events_, ret, indexed, filter_trace, loads,
          JETSCAPE_FILE, PATH_JETSCAPE_, init_ret, sigma_ret,
          particle_input, particle, alive, got, ops,
          n_arg, n_, particle_data, flow_ret

loaderVars == <<file, optional_arguments_, particle_type_,
                particle_type_defining_string_, num_output_per_event_,
                num_events_, ret, indexed, filter_trace, loads>>

initVars == <<JETSCAPE_FILE, PATH_JETSCAPE_, init_ret, sigma_ret>>

particleVars == <<particle_input, particle, alive, got, ops>>

flowVars == <<n_arg, n_, particle_data, flow_ret>>

vars == <<loaderVars, initVars, particleVars, flowVars>>

\* ------------------------------------------------------------------ bounds
MaxEvents == 2
MaxCount == 1
MaxBadEvents == 2
MaxLoads == 2
MaxPathLen == 3
MaxTextLines == 2
MaxLen == 23
MaxOps == 2
MaxN == 2
MaxFlowEvents == 2
MaxParticles == 3

\* ----------------------------------------------------------------- helpers
\* Python's None is the empty tuple, a value v that is set is <<v>>
None == <<>>
Some(v) == <<v>>
Val(o) == o[1]

At0(s, i) == s[i + 1]

Min(a, b) == IF a < b THEN a ELSE b

RECURSIVE SumCounts(_, _, _)
SumCounts(tbl, lo, hi) ==
    IF lo > hi THEN 0 ELSE At0(tbl, lo)[2] + 1 + SumCounts(tbl, lo + 1, hi)

ISqrt(n) == CHOOSE r \in 0..n : r * r <= n /\ n < (r + 1) * (r + 1)

\* ------------------------------------------------------------------- lines
HeaderLine == [k |-> "hdr"]
SigmaLine == [k |-> "sig"]
EventLine(ev, n, kw) == [k |-> "evt", ev |-> ev, n |-> n, kw |-> kw]
DataLine(tok) == [k |-> "dat", tok |-> tok]

HasHash(l) == l.k \in {"hdr", "evt", "sig"}
HasSigmaGen(l) == l.k = "sig"
HasEvent(l) == l.k = "evt"
HasWeight(l) == l.k = "evt"
HasKeyword(l, s) == l.k = "evt" /\ l.kw = s

\* number of tokens of line.replace('\n','').replace('\t',' ').split(' ')
NumTokens(l) ==
    CASE l.k = "dat" -> Len(l.tok)
      [] l.k = "evt" -> 9
      [] l.k = "sig" -> 5
      [] OTHER -> 11

\* line.replace('\n','').replace('\t',' ').split(' ')
Tokens(l) == IF l.k = "dat" THEN l.tok ELSE [i \in 1..NumTokens(l) |-> 0]

\* ---------------------------------------------------------------- Particle
PDGValid(pdg) == pdg \in {211, 111, 2212}
PDGCharge(pdg) == CASE pdg = 211 -> 1 [] pdg = 2212 -> 1 [] OTHER -> 0

p_abs2(p) == p.px_ * p.px_ + p.py_ * p.py_ + p.pz_ * p.pz_

compute_mass_from_energy_momentum(p) ==
    LET m2 == p.E_ * p.E_ - p_abs2(p)
    IN  IF m2 > 0 THEN ISqrt(m2) ELSE 0

compute_charge_from_pdg(p) ==
    IF p.pdg_valid_ # Some(TRUE) THEN None ELSE Some(PDGCharge(p.pdg_))

\* a slip: the columns of px and py are exchanged in the JETSCAPE layout
JetscapeParticle_swapped(arr) ==
    IF Len(arr) # 7
    THEN [err |-> "ValueError", p |-> None]
    ELSE LET p0 == [ID_ |-> arr[1], pdg_ |-> arr[2], status_ |-> arr[3],
                    E_ |-> arr[4], px_ |-> arr[6], py_ |-> arr[5],
                    pz_ |-> arr[7], mass_ |-> None, charge_ |-> None,
                    pdg_valid_ |-> None]
             p1 == [p0 EXCEPT !.mass_ =
                                  Some(compute_mass_from_energy_momentum(p0))]
             p2 == [p1 EXCEPT !.charge_ = compute_charge_from_pdg(p1)]
         IN  [err |-> "none",
              p |-> [p2 EXCEPT !.pdg_valid_ = Some(PDGValid(p2.pdg_))]]

\* Particle("JETSCAPE", particle_array): [err, p]
JetscapeParticle(arr) ==
    IF Len(arr) # 7
    THEN [err |-> "ValueError", p |-> None]
    ELSE LET p0 == [ID_ |-> arr[1], pdg_ |-> arr[2], status_ |-> arr[3],
                    E_ |-> arr[4], px_ |-> arr[5], py_ |-> arr[6],
                    pz_ |-> arr[7], mass_ |-> None, charge_ |-> None,
                    pdg_valid_ |-> None]
             p1 == [p0 EXCEPT !.mass_ =
                                  Some(compute_mass_from_energy_momentum(p0))]
             p2 == [p1 EXCEPT !.charge_ = compute_charge_from_pdg(p1)]
         IN  [err |-> "none",
              p |-> [p2 EXCEPT !.pdg_valid_ = Some(PDGValid(p2.pdg_))]]

\* ------------------------------------------------------------------- files
\* tokens of the i-th data line of event e: ID, PDG, status, E, px, py, pz
Tok(e, i) ==
    CASE (e + i) % 3 = 0 -> <<10 * e + i, 2212, 0, 5, 0, 0, 3>>
      [] (e + i) % 3 = 1 -> <<10 * e + i, 111, 0, 5, 0, 4, 3>>
      [] OTHER -> <<10 * e + i, 211, 0, 5, 3, 0, 0>>

\* one event block: the event header line, declaring n records under the
\* event number ev, followed by m data lines
Block(e, ev, n, m, kw) ==
    <<EventLine(ev, n, kw)>> \o [i \in 1..m |-> DataLine(Tok(e, i))]

RECURSIVE Blocks(_, _, _)
Blocks(specs, e, kw) ==
    IF e > Len(specs) THEN <<>>
    ELSE Block(e, specs[e].ev, specs[e].n, specs[e].m, kw)
         \o Blocks(specs, e + 1, kw)

FileOf(specs, kw, sigma) ==
    <<HeaderLine>> \o Blocks(specs, 1, kw)
    \o (IF sigma THEN <<SigmaLine>> ELSE <<>>)

CountSeqs == UNION {[1..N -> 0..MaxCount] : N \in 0..MaxEvents}

WellFormedSpecs(c) == [e \in 1..Len(c) |-> [ev |-> e, n |-> c[e], m |-> c[e]]]

WellFormedFile(c, kw) == FileOf(WellFormedSpecs(c), kw, TRUE)

\* the files that are not well formed have at most MaxBadEvents events
ShortCountSeqs == {c \in CountSeqs : Len(c) <= MaxBadEvents}

HadronFiles == {WellFormedFile(c, "N_hadrons") : c \in CountSeqs}

PartonFiles ==
    {WellFormedFile([e \in 1..N |-> 1], "N_partons") : N \in 0..MaxEvents}

WellFormedFiles == HadronFiles \cup PartonFiles

\* the first event declares d records but holds c[1]
BadCountFiles ==
    {FileOf([WellFormedSpecs(c) EXCEPT ![1].n = d], "N_hadrons", TRUE) :
        c \in {x \in ShortCountSeqs : Len(x) >= 1}, d \in 0..MaxCount}
    \ WellFormedFiles

\* the second event repeats the event number of the first
DupNumberFiles ==
    {FileOf([WellFormedSpecs(c) EXCEPT ![2].ev = 1], "N_hadrons", TRUE) :
        c \in {x \in ShortCountSeqs : Len(x) >= 2}}

\* the terminating sigmaGen line is missing
NoSigmaFiles ==
    {FileOf(WellFormedSpecs(c), "N_hadrons", FALSE) : c \in ShortCountSeqs}

\* the header line of the file is followed by a data line
NoFirstHeaderFiles ==
    {<<HeaderLine, DataLine(Tok(0, 1))>>
     \o Tail(WellFormedFile(c, "N_hadrons")) :
        c \in {x \in ShortCountSeqs : Len(x) >= 1}}

Files == WellFormedFiles \cup BadCountFiles \cup DupNumberFiles
         \cup NoSigmaFiles \cup NoFirstHeaderFiles

\* ----------------------------------------------------------------- options
AbsentEvents == [t |-> "absent", a |-> 0, b |-> 0]
IntEvents(k) == [t |-> "int", a |-> k, b |-> 0]
TupleEvents(a, b) == [t |-> "tuple", a |-> a, b |-> b]
FloatEvents == [t |-> "float", a |-> 0, b |-> 0]

EventsOptions ==
    {AbsentEvents, FloatEvents}
    \cup {IntEvents(k) : k \in -1..MaxEvents}
    \cup {TupleEvents(a, b) : a, b \in -1..MaxEvents}

ValidEventsOptions ==
    {AbsentEvents}
    \cup {IntEvents(k) : k \in 0..MaxEvents}
    \cup {t \in {TupleEvents(a, b) : a, b \in 0..MaxEvents} : t.a <= t.b}

AbsentFilters == [present |-> FALSE, dict |-> <<>>]
Filters(d) == [present |-> TRUE, dict |-> d]
Charged == [name |-> "charged_particles", val |-> 1]
ChargedOff == [name |-> "charged_particles", val |-> 0]
PtCut == [name |-> "pt_cut", val |-> 1]
UnknownCut == [name |-> "unknown_cut", val |-> 0]

FiltersOptions ==
    {AbsentFilters, Filters(<<>>), Filters(<<Charged>>), Filters(<<PtCut>>),
     Filters(<<ChargedOff>>), Filters(<<Charged, PtCut>>),
     Filters(<<PtCut, Charged>>), Filters(<<UnknownCut>>)}

AbsentType == [t |-> "absent", v |-> ""]
StrType(s) == [t |-> "str", v |-> s]
NonStrType == [t |-> "other", v |-> ""]

TypeOptions ==
    {AbsentType, StrType("hadron"), StrType("parton"), StrType("quark"),
     NonStrType}

Kwargs(ev, fl, ty, other) ==
    [events |-> ev, filters |-> fl, particletype |-> ty, other |-> other]

KwargsSet ==
    {Kwargs(ev, AbsentFilters, AbsentType, FALSE) : ev \in EventsOptions}
    \cup {Kwargs(ev, Filters(<<PtCut>>), AbsentType, FALSE) :
        ev \in ValidEventsOptions}
    \cup {Kwargs(ev, fl, AbsentType, FALSE) :
        ev \in {AbsentEvents, IntEvents(1)}, fl \in FiltersOptions}
    \cup {Kwargs(AbsentEvents, AbsentFilters, ty, FALSE) : ty \in TypeOptions}
    \cup {Kwargs(ev, fl, ty, TRUE) :
        ev \in {AbsentEvents, TupleEvents(1, 0)},
        fl \in {AbsentFilters, Filters(<<UnknownCut>>)},
        ty \in {AbsentType, StrType("quark")}}

HasKey(kw, key) ==
    CASE key = "events" -> kw.events.t # "absent"
      [] key = "filters" -> kw.filters.present
      [] key = "particletype" -> kw.particletype.t # "absent"
      [] OTHER -> kw.other

\* `not kwargs`
IsEmpty(kw) ==
    ~HasKey(kw, "events") /\ ~HasKey(kw, "filters")
    /\ ~HasKey(kw, "particletype") /\ ~kw.other

\* ------------------------------------------------------------------ filters
\* sparkx.Filter.charged_particles applied to one event
charged_particles(event) == SelectSeq(event, LAMBDA p : PDGCharge(p.pdg_) # 0)

\* sparkx.Filter.pt_cut applied to one event: keeps pt > cut
pt_cut(event, cut) ==
    SelectSeq(event, LAMBDA p : p.px_ * p.px_ + p.py_ * p.py_ > cut * cut)

RECURSIVE ApplyFrom(_, _, _, _)
ApplyFrom(event, dict, j, trace) ==
    IF j > Len(dict) THEN [err |-> "none", event |-> event, trace |-> trace]
    ELSE LET i == dict[j] IN
         CASE i.name = "charged_particles" ->
                IF i.val # 0
                THEN ApplyFrom(charged_particles(event), dict, j + 1,
                               Append(trace, i.name))
                ELSE ApplyFrom(event, dict, j + 1, trace)
           [] i.name = "pt_cut" ->
                ApplyFrom(pt_cut(event, i.val), dict, j + 1,
                          Append(trace, i.name))
           [] OTHER -> [err |-> "ValueError", event |-> event, trace |-> trace]

\* __apply_kwargs_filters([data], filters_dict)[0]
apply_kwargs_filters(event, filters_dict) ==
    IF Len(filters_dict) = 0
    THEN [err |-> "none", event |-> event, trace |-> <<>>]
    ELSE ApplyFrom(event, filters_dict, 1, <<>>)

\* --------------------------------------------------------------- JetscapeLoader
set_num_output_per_event(f, defstr) ==
    LET marks == SelectSeq(f, LAMBDA l : HasHash(l) /\ HasKeyword(l, defstr))
    IN  [i \in 1..Len(marks) |-> <<marks[i].ev, marks[i].n>>]

NoEvents(kw) == IsEmpty(kw) \/ ~HasKey(kw, "events")

\* a slip: the lines of the events before the requested one are not skipped
_get_num_skip_lines_header_only(kw, nope) ==
    IF NoEvents(kw) \/ kw.events.t \in {"int", "tuple"}
    THEN [err |-> "none", val |-> 1]
    ELSE [err |-> "TypeError", val |-> 0]

_get_num_skip_lines(kw, nope) ==
    IF NoEvents(kw) THEN [err |-> "none", val |-> 1]
    ELSE IF kw.events.t \in {"int", "tuple"}
    THEN IF kw.events.a = 0 THEN [err |-> "none", val |-> 1]
         ELSE [err |-> "none",
               val |-> 1 + SumCounts(nope, 0, kw.events.a - 1)]
    ELSE [err |-> "TypeError", val |-> 0]

\* a slip: range(event_start, event_end) leaves the last event out
get_num_read_lines_exclusive(kw, nope) ==
    IF NoEvents(kw)
    THEN IF Len(nope) = 0 THEN [err |-> "IndexError", val |-> 0]
         ELSE [err |-> "none", val |-> SumCounts(nope, 0, Len(nope) - 1) + 1]
    ELSE IF kw.events.t = "int"
    THEN IF kw.events.a >= Len(nope) THEN [err |-> "IndexError", val |-> 0]
         ELSE [err |-> "none", val |-> At0(nope, kw.events.a)[2] + 1 + 1]
    ELSE IF kw.events.t = "tuple"
    THEN IF kw.events.b - 1 >= Len(nope)
         THEN [err |-> "IndexError", val |-> 0]
         ELSE [err |-> "none",
               val |-> SumCounts(nope, kw.events.a, kw.events.b - 1) + 1]
    ELSE [err |-> "TypeError", val |-> 0]

\* a slip: a range reaching past the last event is cut to the events there are
get_num_read_lines_clamped(kw, nope) ==
    IF NoEvents(kw)
    THEN IF Len(nope) = 0 THEN [err |-> "IndexError", val |-> 0]
         ELSE [err |-> "none", val |-> SumCounts(nope, 0, Len(nope) - 1) + 1]
    ELSE IF kw.events.t = "int"
    THEN IF kw.events.a >= Len(nope) THEN [err |-> "IndexError", val |-> 0]
         ELSE [err |-> "none", val |-> At0(nope, kw.events.a)[2] + 1 + 1]
    ELSE IF kw.events.t = "tuple"
    THEN IF kw.events.a >= Len(nope) THEN [err |-> "IndexError", val |-> 0]
         ELSE [err |-> "none",
               val |-> SumCounts(nope, kw.events.a,
                                 Min(kw.events.b, Len(nope) - 1)) + 1]
    ELSE [err |-> "TypeError", val |-> 0]

get_num_read_lines(kw, nope) ==
    IF NoEvents(kw)
    THEN IF Len(nope) = 0 THEN [err |-> "IndexError", val |-> 0]
         ELSE [err |-> "none", val |-> SumCounts(nope, 0, Len(nope) - 1) + 1]
    ELSE IF kw.events.t = "int"
    THEN IF kw.events.a >= Len(nope) THEN [err |-> "IndexError", val |-> 0]
         ELSE [err |-> "none", val |-> At0(nope, kw.events.a)[2] + 1 + 1]
    ELSE IF kw.events.t = "tuple"
    THEN IF kw.events.b >= Len(nope) THEN [err |-> "IndexError", val |-> 0]
         ELSE [err |-> "none",
               val |-> SumCounts(nope, kw.events.a, kw.events.b) + 1]
    ELSE [err |-> "TypeError", val |-> 0]

\* the event is closed: filtered if filters are given, its row of the table
\* rewritten, and appended to particle_list
CloseEvent(st, kw, reset) ==
    IF HasKey(kw, "filters")
    THEN LET r == apply_kwargs_filters(st.data, kw.filters.dict)
             idx == Len(st.particle_list)
         IN  IF r.err # "none"
             THEN [st EXCEPT !.err = r.err, !.msg = "cut"]
             ELSE IF idx >= Len(st.nope)
             THEN [st EXCEPT !.err = "IndexError", !.msg = "row",
                             !.trace = r.trace]
             ELSE [st EXCEPT !.nope[idx + 1] = <<idx + 1, Len(r.event)>>,
                             !.particle_list = Append(@, r.event),
                             !.data = IF reset THEN <<>> ELSE r.event,
                             !.trace = r.trace]
    ELSE [st EXCEPT !.particle_list = Append(@, st.data),
                    !.data = IF reset THEN <<>> ELSE st.data]

first_event_header(kw) ==
    IF HasKey(kw, "events") THEN 1 + kw.events.a ELSE 1

\* a slip: the loop stops at the end of the file and raises nothing
RECURSIVE ReadLoop_stop(_, _, _, _, _, _)
ReadLoop_stop(f, kw, pos, i, n, st) ==
    IF i >= n \/ st.err # "none" \/ pos > Len(f) THEN st
    ELSE LET line == f[pos] IN
         IF HasHash(line) /\ HasSigmaGen(line)
         THEN ReadLoop_stop(f, kw, pos + 1, i + 1, n,
                            CloseEvent(st, kw, FALSE))
         ELSE IF i = 0 /\ ~HasHash(line) /\ ~HasWeight(line)
         THEN [st EXCEPT !.err = "ValueError", !.msg = "first"]
         ELSE IF HasEvent(line) /\ HasWeight(line)
         THEN IF line.ev = first_event_header(kw)
              THEN ReadLoop_stop(f, kw, pos + 1, i + 1, n, st)
              ELSE ReadLoop_stop(f, kw, pos + 1, i + 1, n,
                                 CloseEvent(st, kw, TRUE))
         ELSE LET r == JetscapeParticle(Tokens(line))
              IN  IF r.err # "none"
                  THEN [st EXCEPT !.err = r.err, !.msg = "particle"]
                  ELSE ReadLoop_stop(f, kw, pos + 1, i + 1, n,
                                     [st EXCEPT !.data = Append(@, r.p)])

\* a slip: the first line of the window is not examined
RECURSIVE ReadLoop_any_first(_, _, _, _, _, _)
ReadLoop_any_first(f, kw, pos, i, n, st) ==
    IF i >= n \/ st.err # "none" THEN st
    ELSE IF pos > Len(f)
    THEN [st EXCEPT !.err = "IndexError", !.msg = "eof"]
    ELSE LET line == f[pos] IN
         IF HasHash(line) /\ HasSigmaGen(line)
         THEN ReadLoop_any_first(f, kw, pos + 1, i + 1, n,
                                 CloseEvent(st, kw, FALSE))
         ELSE IF HasEvent(line) /\ HasWeight(line)
         THEN IF line.ev = first_event_header(kw)
              THEN ReadLoop_any_first(f, kw, pos + 1, i + 1, n, st)
              ELSE ReadLoop_any_first(f, kw, pos + 1, i + 1, n,
                                      CloseEvent(st, kw, TRUE))
         ELSE LET r == JetscapeParticle(Tokens(line))
              IN  IF r.err # "none"
                  THEN [st EXCEPT !.err = r.err, !.msg = "particle"]
                  ELSE ReadLoop_any_first(f, kw, pos + 1, i + 1, n,
                                          [st EXCEPT !.data = Append(@, r.p)])

\* the loop of set_particle_list over range(0, num_read_lines); pos is the
\* position of the file object
RECURSIVE ReadLoop(_, _, _, _, _, _)
ReadLoop(f, kw, pos, i, n, st) ==
    IF i >= n \/ st.err # "none" THEN st
    ELSE IF pos > Len(f)
    THEN [st EXCEPT !.err = "IndexError", !.msg = "eof"]
    ELSE LET line == f[pos] IN
         IF HasHash(line) /\ HasSigmaGen(line)
         THEN ReadLoop(f, kw, pos + 1, i + 1, n, CloseEvent(st, kw, FALSE))
         ELSE IF i = 0 /\ ~HasHash(line) /\ ~HasWeight(line)
         THEN [st EXCEPT !.err = "ValueError", !.msg = "first"]
         ELSE IF HasEvent(line) /\ HasWeight(line)
         THEN IF line.ev = first_event_header(kw)
              THEN ReadLoop(f, kw, pos + 1, i + 1, n, st)
              ELSE ReadLoop(f, kw, pos + 1, i + 1, n,
                            CloseEvent(st, kw, TRUE))
         ELSE LET r == JetscapeParticle(Tokens(line))
              IN  IF r.err # "none"
                  THEN [st EXCEPT !.err = r.err, !.msg = "particle"]
                  ELSE ReadLoop(f, kw, pos + 1, i + 1, n,
                                [st EXCEPT !.data = Append(@, r.p)])

\* a slip: a full load is not compared with the indexed number of events
Reconcile_unchecked(st, kw, nev) ==
    IF st.err # "none" \/ NoEvents(kw) THEN [st EXCEPT !.nev = nev]
    ELSE IF kw.events.t = "int"
    THEN [st EXCEPT !.nope = <<At0(st.nope, kw.events.a)>>, !.nev = 1]
    ELSE IF kw.events.t = "tuple"
    THEN [st EXCEPT !.nope = SubSeq(st.nope, kw.events.a + 1,
                                    Min(kw.events.b + 1, Len(st.nope))),
                    !.nev = kw.events.b - kw.events.a + 1]
    ELSE [st EXCEPT !.nev = nev]

\* the reconciliation at the end of set_particle_list
Reconcile(st, kw, nev) ==
    IF st.err # "none" THEN [st EXCEPT !.nev = nev]
    ELSE IF NoEvents(kw)
    THEN IF Len(st.particle_list) # nev
         THEN [st EXCEPT !.err = "IndexError", !.msg = "mismatch", !.nev = nev]
         ELSE [st EXCEPT !.nev = nev]
    ELSE IF kw.events.t = "int"
    THEN [st EXCEPT !.nope = <<At0(st.nope, kw.events.a)>>, !.nev = 1]
    ELSE IF kw.events.t = "tuple"
    THEN [st EXCEPT !.nope = SubSeq(st.nope, kw.events.a + 1,
                                    Min(kw.events.b + 1, Len(st.nope))),
                    !.nev = kw.events.b - kw.events.a + 1]
    ELSE [st EXCEPT !.nev = nev]

set_particle_list(f, kw, nope, nev) ==
    LET st0 == [err |-> "none", msg |-> "", data |-> <<>>,
                particle_list |-> <<>>, nope |-> nope, nev |-> nev,
                trace |-> <<>>]
        nr == get_num_read_lines(kw, nope)
        ns == _get_num_skip_lines(kw, nope)
    IN  IF nr.err # "none" THEN [st0 EXCEPT !.err = nr.err, !.msg = "read"]
        ELSE IF ns.err # "none" THEN [st0 EXCEPT !.err = ns.err, !.msg = "skip"]
        ELSE Reconcile(ReadLoop(f, kw, ns.val + 1, 0, nr.val, st0), kw, nev)

NoReturn(err, msg) ==
    [err |-> err, msg |-> msg, particle_list |-> <<>>, num_events |-> 0,
     num_output_per_event |-> <<>>]

\* a slip: a call without particletype goes back to the hadron type
CheckOptions_reset(kw, ptype) ==
    LET kept == IF kw.particletype.t = "absent" THEN "hadron" ELSE ptype IN
    IF kw.other THEN [err |-> "ValueError", ptype |-> kept]
    ELSE IF kw.events.t = "tuple" /\ kw.events.a > kw.events.b
    THEN [err |-> "ValueError", ptype |-> kept]
    ELSE IF kw.events.t = "tuple" /\ (kw.events.a < 0 \/ kw.events.b < 0)
    THEN [err |-> "ValueError", ptype |-> kept]
    ELSE IF kw.events.t = "int" /\ kw.events.a < 0
    THEN [err |-> "ValueError", ptype |-> kept]
    ELSE IF kw.particletype.t = "str"
    THEN IF kw.particletype.v \in {"hadron", "parton"}
         THEN [err |-> "none", ptype |-> kw.particletype.v]
         ELSE [err |-> "ValueError", ptype |-> kept]
    ELSE IF kw.particletype.t = "other"
    THEN [err |-> "TypeError", ptype |-> kept]
    ELSE [err |-> "none", ptype |-> kept]

\* a slip: every string is taken as a particle type
CheckOptions_any_type(kw, ptype) ==
    IF kw.other THEN [err |-> "ValueError", ptype |-> ptype]
    ELSE IF kw.events.t = "tuple" /\ kw.events.a > kw.events.b
    THEN [err |-> "ValueError", ptype |-> ptype]
    ELSE IF kw.events.t = "tuple" /\ (kw.events.a < 0 \/ kw.events.b < 0)
    THEN [err |-> "ValueError", ptype |-> ptype]
    ELSE IF kw.events.t = "int" /\ kw.events.a < 0
    THEN [err |-> "ValueError", ptype |-> ptype]
    ELSE IF kw.particletype.t = "str"
    THEN [err |-> "none", ptype |-> kw.particletype.v]
    ELSE IF kw.particletype.t = "other"
    THEN [err |-> "TypeError", ptype |-> ptype]
    ELSE [err |-> "none", ptype |-> ptype]

\* a slip: the order of the endpoints of an events pair is not checked
CheckOptions_unordered(kw, ptype) ==
    IF kw.other THEN [err |-> "ValueError", ptype |-> ptype]
    ELSE IF kw.events.t = "tuple" /\ (kw.events.a < 0 \/ kw.events.b < 0)
    THEN [err |-> "ValueError", ptype |-> ptype]
    ELSE IF kw.events.t = "int" /\ kw.events.a < 0
    THEN [err |-> "ValueError", ptype |-> ptype]
    ELSE IF kw.particletype.t = "str"
    THEN IF kw.particletype.v \in {"hadron", "parton"}
         THEN [err |-> "none", ptype |-> kw.particletype.v]
         ELSE [err |-> "ValueError", ptype |-> ptype]
    ELSE IF kw.particletype.t = "other"
    THEN [err |-> "TypeError", ptype |-> ptype]
    ELSE [err |-> "none", ptype |-> ptype]

\* a slip: the keys of kwargs are not checked
CheckOptions_any_key(kw, ptype) ==
    IF kw.events.t = "tuple" /\ kw.events.a > kw.events.b
    THEN [err |-> "ValueError", ptype |-> ptype]
    ELSE IF kw.events.t = "tuple" /\ (kw.events.a < 0 \/ kw.events.b < 0)
    THEN [err |-> "ValueError", ptype |-> ptype]
    ELSE IF kw.events.t = "int" /\ kw.events.a < 0
    THEN [err |-> "ValueError", ptype |-> ptype]
    ELSE IF kw.particletype.t = "str"
    THEN IF kw.particletype.v \in {"hadron", "parton"}
         THEN [err |-> "none", ptype |-> kw.particletype.v]
         ELSE [err |-> "ValueError", ptype |-> ptype]
    ELSE IF kw.particletype.t = "other"
    THEN [err |-> "TypeError", ptype |-> ptype]
    ELSE [err |-> "none", ptype |-> ptype]

\* the option checks of load(**kwargs), made before the index pass: the
\* exception raised, or "none", and particle_type_ after them
CheckOptions(kw, ptype) ==
    IF kw.other THEN [err |-> "ValueError", ptype |-> ptype]
    ELSE IF kw.events.t = "tuple" /\ kw.events.a > kw.events.b
    THEN [err |-> "ValueError", ptype |-> ptype]
    ELSE IF kw.events.t = "tuple" /\ (kw.events.a < 0 \/ kw.events.b < 0)
    THEN [err |-> "ValueError", ptype |-> ptype]
    ELSE IF kw.events.t = "int" /\ kw.events.a < 0
    THEN [err |-> "ValueError", ptype |-> ptype]
    ELSE IF kw.particletype.t = "str"
    THEN IF kw.particletype.v \in {"hadron", "parton"}
         THEN [err |-> "none", ptype |-> kw.particletype.v]
         ELSE [err |-> "ValueError", ptype |-> ptype]
    ELSE IF kw.particletype.t = "other"
    THEN [err |-> "TypeError", ptype |-> ptype]
    ELSE [err |-> "none", ptype |-> ptype]

\* a slip: the index pass is made by the first load only, later loads use
\* the table the load before them left
load_keep_index(f, ptype, defstr, nope, nev, kw) ==
    LET chk == CheckOptions(kw, ptype)
        defstr1 == IF chk.ptype = "hadron" THEN "N_hadrons" ELSE "N_partons"
    IN  IF chk.err # "none"
        THEN [particle_type_ |-> chk.ptype, defstr |-> defstr, nope |-> nope,
              nev |-> nev, indexed |-> FALSE, trace |-> <<>>,
              ret |-> NoReturn(chk.err, "option")]
        ELSE LET nope1 == IF defstr # "unset" THEN nope
                          ELSE set_num_output_per_event(f, defstr1)
                 st == set_particle_list(f, kw, nope1, Len(nope1))
             IN  [particle_type_ |-> chk.ptype, defstr |-> defstr1,
                  nope |-> st.nope, nev |-> st.nev, indexed |-> TRUE,
                  trace |-> st.trace,
                  ret |-> IF st.err # "none" THEN NoReturn(st.err, st.msg)
                          ELSE [err |-> "none", msg |-> "",
                                particle_list |-> st.particle_list,
                                num_events |-> st.nev,
                                num_output_per_event |-> st.nope]]

\* load(**kwargs): the loader's fields and the returned value after the call
load(f, ptype, defstr, nope, nev, kw) ==
    LET chk == CheckOptions(kw, ptype)
        defstr1 == IF chk.ptype = "hadron" THEN "N_hadrons" ELSE "N_partons"
    IN  IF chk.err # "none"
        THEN [particle_type_ |-> chk.ptype, defstr |-> defstr, nope |-> nope,
              nev |-> nev, indexed |-> FALSE, trace |-> <<>>,
              ret |-> NoReturn(chk.err, "option")]
        ELSE LET nope1 == set_num_output_per_event(f, defstr1)
                 st == set_particle_list(f, kw, nope1, Len(nope1))
             IN  [particle_type_ |-> chk.ptype, defstr |-> defstr1,
                  nope |-> st.nope, nev |-> st.nev, indexed |-> TRUE,
                  trace |-> st.trace,
                  ret |-> IF st.err # "none" THEN NoReturn(st.err, st.msg)
                          ELSE [err |-> "none", msg |-> "",
                                particle_list |-> st.particle_list,
                                num_events |-> st.nev,
                                num_output_per_event |-> st.nope]]

\* ------------------------------------------------------- re-serialization
\* the JETSCAPE columns of a record, in the order of the layout
ParticleTokens(p) ==
    <<p.ID_, p.pdg_, p.status_, p.E_, p.px_, p.py_, p.pz_>>

RECURSIVE WriteEvents(_, _, _, _)
WriteEvents(pl, tbl, defstr, i) ==
    IF i > Len(pl) THEN <<>>
    ELSE <<EventLine(tbl[i][1], tbl[i][2], defstr)>>
         \o [j \in 1..Len(pl[i]) |-> DataLine(ParticleTokens(pl[i][j]))]
         \o WriteEvents(pl, tbl, defstr, i + 1)

\* the lines written for a loaded collection: the header line of the file,
\* per event its boundary line and its data lines, the terminator line
print_particle_lists_to_file(f, pl, tbl, defstr) ==
    <<f[1]>> \o WriteEvents(pl, tbl, defstr, 1) \o <<f[Len(f)]>>

\* ------------------------------------------------- Particle, every layout
\* values a call returns: None, an int or float, a bool
PyNone == [t |-> "None", v |-> 0]
PyNum(v) == [t |-> "num", v |-> v]
PyBool(b) == [t |-> "bool", v |-> IF b THEN 1 ELSE 0]

\* the value returned for a field that is set
PyOf(o) == IF o = None THEN PyNone ELSE PyNum(Val(o))

\* attribute_mapping: the attributes of a layout in the order of its columns
Oscar2013Columns ==
    <<"t_", "x_", "y_", "z_", "mass_", "E_", "px_", "py_", "pz_", "pdg_",
      "ID_", "charge_">>

ExtendedColumns ==
    Oscar2013Columns
    \o <<"ncoll_", "form_time_", "xsecfac_", "proc_id_origin_",
         "proc_type_origin_", "t_last_coll_", "pdg_mother1_", "pdg_mother2_">>

attribute_mapping(input_format) ==
    CASE input_format = "Oscar2013" -> Oscar2013Columns
      [] input_format \in {"Oscar2013Extended", "Oscar2013Extended_IC"} ->
            ExtendedColumns \o <<"baryon_number_", "strangeness_">>
      [] input_format = "Oscar2013Extended_Photons" ->
            ExtendedColumns \o <<"weight_">>
      [] input_format = "JETSCAPE" ->
            <<"ID_", "pdg_", "status_", "E_", "px_", "py_", "pz_">>

SupportedFormats ==
    {"Oscar2013", "Oscar2013Extended", "Oscar2013Extended_IC",
     "Oscar2013Extended_Photons", "JETSCAPE"}

\* the attributes that have a property, and all attributes
Properties ==
    {ExtendedColumns[i] : i \in 1..Len(ExtendedColumns)}
    \cup {"baryon_number_", "strangeness_", "weight_", "status_"}

Attributes == Properties \cup {"pdg_valid_"}

\* the attributes after the assignments at the head of __init__
Particle0 == [a \in Attributes |-> None]

\* the attributes the derived quantities of a JETSCAPE record are computed of
Kinematics(p) ==
    [E_ |-> Val(p["E_"]), px_ |-> Val(p["px_"]), py_ |-> Val(p["py_"]),
     pz_ |-> Val(p["pz_"]), pdg_ |-> Val(p["pdg_"]),
     pdg_valid_ |-> p["pdg_valid_"]]

ColumnOf(cols, a) == CHOOSE i \in 1..Len(cols) : cols[i] = a

\* the loop over attribute_mapping[input_format].items()
AssignColumns(cols, arr) ==
    [a \in Attributes |->
        IF \E i \in 1..Len(cols) : cols[i] = a
        THEN IF Len(arr) < (ColumnOf(cols, a) - 1) + 1 THEN None
             ELSE Some(arr[ColumnOf(cols, a)])
        ELSE None]

\* the derived mass and charge of a JETSCAPE record, in the order of the code
DeriveJetscape(p) ==
    LET p1 == [p EXCEPT !["mass_"] =
                   Some(compute_mass_from_energy_momentum(Kinematics(p)))]
    IN  [p1 EXCEPT !["charge_"] = compute_charge_from_pdg(Kinematics(p1))]

SetValidity(p) ==
    [p EXCEPT !["pdg_valid_"] = Some(PDGValid(Val(p["pdg_"])))]

\* a slip: every layout tolerates up to 2 missing trailing columns
initialize_from_array_lenient(input_format, arr) ==
    IF input_format \in SupportedFormats
    THEN LET cols == attribute_mapping(input_format) IN
         IF \/ Len(arr) = Len(cols)
            \/ /\ Len(arr) <= Len(cols)
               /\ Len(arr) >= Len(cols) - 2
         THEN LET p1 == AssignColumns(cols, arr)
                  p2 == IF input_format = "JETSCAPE" THEN DeriveJetscape(p1)
                        ELSE p1
              IN  [err |-> "none", p |-> SetValidity(p2),
                   warn |-> ~PDGValid(Val(p2["pdg_"]))]
         ELSE [err |-> "ValueError", p |-> Particle0, warn |-> FALSE]
    ELSE [err |-> "ValueError", p |-> Particle0, warn |-> FALSE]

\* __initialize_from_array(input_format, particle_array): the exception
\* raised, or "none", the attributes, and whether a warning was emitted
initialize_from_array(input_format, arr) ==
    IF input_format \in SupportedFormats
    THEN LET cols == attribute_mapping(input_format) IN
         IF \/ Len(arr) = Len(cols)
            \/ /\ input_format \in {"Oscar2013Extended",
                                     "Oscar2013Extended_IC"}
               /\ Len(arr) <= Len(cols)
               /\ Len(arr) >= Len(cols) - 2
         THEN LET p1 == AssignColumns(cols, arr)
                  p2 == IF input_format = "JETSCAPE" THEN DeriveJetscape(p1)
                        ELSE p1
              IN  [err |-> "none", p |-> SetValidity(p2),
                   warn |-> ~PDGValid(Val(p2["pdg_"]))]
         ELSE [err |-> "ValueError", p |-> Particle0, warn |-> FALSE]
    ELSE [err |-> "ValueError", p |-> Particle0, warn |-> FALSE]

\* the arguments of Particle(input_format, particle_array); an argument that
\* is not given is None
NoInput == [input_format |-> None, particle_array |-> None]

\* Particle.__init__
Particle_init(args) ==
    IF (args.input_format # None /\ args.particle_array = None)
       \/ (args.input_format = None /\ args.particle_array # None)
    THEN [err |-> "ValueError", p |-> Particle0, warn |-> FALSE]
    ELSE IF args.input_format # None /\ args.particle_array # None
    THEN initialize_from_array(Val(args.input_format),
                               Val(args.particle_array))
    ELSE [err |-> "none", p |-> Particle0, warn |-> FALSE]

\* a slip: the setter of pdg keeps the validity of the code held before
SetProperty_stale(p, a, value) ==
    [p |-> [p EXCEPT ![a] = Some(value)],
     warn |-> a = "pdg_" /\ ~PDGValid(value)]

\* the setter of a property; the setter of pdg looks the code up
SetProperty(p, a, value) ==
    IF a = "pdg_"
    THEN [p |-> [p EXCEPT !["pdg_"] = Some(value),
                          !["pdg_valid_"] = Some(PDGValid(value))],
          warn |-> ~PDGValid(value)]
    ELSE [p |-> [p EXCEPT ![a] = Some(value)], warn |-> FALSE]

\* a slip: `if not self.x_` in place of `if self.x_ == None`
GetProperty_falsy(p, a) ==
    IF p[a] = None \/ p[a] = Some(0)
    THEN IF a \in {"baryon_number_", "strangeness_"}
         THEN [err |-> "none", val |-> PyNone, warn |-> TRUE]
         ELSE [err |-> "ValueError", val |-> PyNone, warn |-> FALSE]
    ELSE [err |-> "none", val |-> PyOf(p[a]), warn |-> FALSE]

\* the getter of a property
GetProperty(p, a) ==
    IF p[a] = None
    THEN IF a \in {"baryon_number_", "strangeness_"}
         THEN [err |-> "none", val |-> PyNone, warn |-> TRUE]
         ELSE [err |-> "ValueError", val |-> PyNone, warn |-> FALSE]
    ELSE [err |-> "none", val |-> PyOf(p[a]), warn |-> FALSE]

\* what the PDG lookup says of a valid code: PDGID(pdg).is_meson and so on;
\* J is given in units of 1/2
PDGIsMeson(pdg) == pdg \in {211, 111}
PDGIsBaryon(pdg) == pdg = 2212
PDGIsHadron(pdg) == PDGIsMeson(pdg) \/ PDGIsBaryon(pdg)
PDGHasStrange(pdg) == FALSE
PDGHasHeavy(pdg) == FALSE
PDGTwoJ(pdg) == IF pdg = 2212 THEN 1 ELSE 0

Queries ==
    {"compute_charge_from_pdg", "is_meson", "is_baryon", "is_hadron",
     "is_strange", "is_heavy_flavor", "spin", "spin_degeneracy"}

PDGLookup(q, pdg) ==
    CASE q = "compute_charge_from_pdg" -> PyNum(PDGCharge(pdg))
      [] q = "is_meson" -> PyBool(PDGIsMeson(pdg))
      [] q = "is_baryon" -> PyBool(PDGIsBaryon(pdg))
      [] q = "is_hadron" -> PyBool(PDGIsHadron(pdg))
      [] q = "is_strange" -> PyBool(PDGHasStrange(pdg))
      [] q = "is_heavy_flavor" -> PyBool(PDGHasHeavy(pdg))
      [] q = "spin" -> PyNum(PDGTwoJ(pdg))
      [] q = "spin_degeneracy" -> PyNum(PDGTwoJ(pdg) + 1)

\* a slip: spin and spin_degeneracy of an invalid code are 0, not None
Query_zero_spin(p, q) ==
    IF p["pdg_valid_"] # Some(TRUE)
    THEN [err |-> "none",
          val |-> IF q = "compute_charge_from_pdg" THEN PyNone
                  ELSE IF q \in {"spin", "spin_degeneracy"} THEN PyNum(0)
                  ELSE PyBool(FALSE)]
    ELSE IF GetProperty(p, "pdg_").err # "none"
    THEN [err |-> GetProperty(p, "pdg_").err, val |-> PyNone]
    ELSE [err |-> "none", val |-> PDGLookup(q, Val(p["pdg_"]))]

\* compute_charge_from_pdg, is_meson, is_baryon, is_hadron, is_strange,
\* is_heavy_flavor, spin, spin_degeneracy
Query(p, q) ==
    IF p["pdg_valid_"] # Some(TRUE)
    THEN [err |-> "none",
          val |-> IF q \in {"compute_charge_from_pdg", "spin",
                            "spin_degeneracy"}
                  THEN PyNone ELSE PyBool(FALSE)]
    ELSE IF GetProperty(p, "pdg_").err # "none"
    THEN [err |-> GetProperty(p, "pdg_").err, val |-> PyNone]
    ELSE [err |-> "none", val |-> PDGLookup(q, Val(p["pdg_"]))]

\* the arguments a Particle is constructed of: an array of len values that
\* holds the code pdg in the column pos and i in every other column i
ArrayOf(len, pos, pdg) == [i \in 1..len |-> IF i = pos THEN pdg ELSE i - 1]

ArrayPDGs == {211, 9}

InputFormats == SupportedFormats \cup {"Oscar2013Extended_Hadrons"}

PdgColumn(input_format) ==
    IF input_format \in SupportedFormats
    THEN ColumnOf(attribute_mapping(input_format), "pdg_")
    ELSE ColumnOf(Oscar2013Columns, "pdg_")

ParticleInputs ==
    {NoInput}
    \cup {[input_format |-> Some(f), particle_array |-> None] :
            f \in InputFormats}
    \cup {[input_format |-> None,
           particle_array |-> Some(ArrayOf(len, PdgColumn("Oscar2013"), c))] :
            len \in 0..MaxLen, c \in ArrayPDGs}
    \cup {[input_format |-> Some(f),
           particle_array |-> Some(ArrayOf(len, PdgColumn(f), c))] :
            f \in InputFormats, len \in 0..MaxLen, c \in ArrayPDGs}

\* the values assigned to a property
SetValues == {0, 2212}

\* -------------------------------------------------------- ReactionPlaneFlow
\* complex numbers with integer parts; a quotient z / d is kept as the pair
\* of z and d, and d = 0 is the value a floating-point division by zero
\* that does not raise gives
Complex(re, im) == [re |-> re, im |-> im]
CZero == Complex(0, 0)
CAdd(x, y) == Complex(x.re + y.re, x.im + y.im)
CMul(x, y) == Complex(x.re * y.re - x.im * y.im, x.re * y.im + x.im * y.re)
CScale(w, x) == Complex(w * x.re, w * x.im)

RECURSIVE CPow(_, _)
CPow(x, k) == IF k = 0 THEN Complex(1, 0) ELSE CMul(x, CPow(x, k - 1))

Quotient(z, d) == [re |-> z.re, im |-> z.im, den |-> d]

\* a particle handed to the estimator: the attributes the estimator reads.
\* The momenta of the model lie on the x or y axis, with pt > 0, pz = 0 and
\* E > 0, so that every quantity below is exact
FlowParticle(weight, px, py) ==
    [weight_ |-> weight, px_ |-> Some(px), py_ |-> Some(py),
     pz_ |-> Some(0), E_ |-> Some(5)]

\* Particle.pt_abs()
pt_abs(p) == ISqrt(Val(p.px_) * Val(p.px_) + Val(p.py_) * Val(p.py_))

\* np.exp(1j * phi) with phi = Particle.phi(), for a momentum on an axis
ExpIPhi(p) ==
    CASE Val(p.px_) = 0 /\ Val(p.py_) = 0 -> Complex(1, 0)
      [] Val(p.py_) = 0 /\ Val(p.px_) > 0 -> Complex(1, 0)
      [] Val(p.px_) = 0 /\ Val(p.py_) > 0 -> Complex(0, 1)
      [] Val(p.py_) = 0 /\ Val(p.px_) < 0 -> Complex(0 - 1, 0)
      [] Val(p.px_) = 0 /\ Val(p.py_) < 0 -> Complex(0, 0 - 1)

\* Particle.momentum_rapidity_Y() and Particle.pseudorapidity() for pz = 0
momentum_rapidity_Y(p) == CASE Val(p.pz_) = 0 /\ Val(p.E_) > 0 -> 0

pseudorapidity(p) == CASE Val(p.pz_) = 0 /\ pt_abs(p) > 0 -> 0

\* the arguments n of the constructor: ints, bools, a float, a str
NArgs ==
    {[t |-> "int", v |-> k] : k \in (0 - 1)..MaxN}
    \cup {[t |-> "bool", v |-> 0], [t |-> "bool", v |-> 1],
          [t |-> "float", v |-> 2], [t |-> "str", v |-> 2]}

\* isinstance(n, int): a bool is an int
IsInstanceInt(x) == x.t \in {"int", "bool"}

\* a slip: n < 0 in place of n <= 0
ReactionPlaneFlow_init_zero(x) ==
    IF ~IsInstanceInt(x) THEN [err |-> "TypeError", n_ |-> None]
    ELSE IF x.v < 0 THEN [err |-> "ValueError", n_ |-> None]
    ELSE [err |-> "none", n_ |-> Some(x)]

\* ReactionPlaneFlow(n)
ReactionPlaneFlow_init(x) ==
    IF ~IsInstanceInt(x) THEN [err |-> "TypeError", n_ |-> None]
    ELSE IF x.v <= 0 THEN [err |-> "ValueError", n_ |-> None]
    ELSE [err |-> "none", n_ |-> Some(x)]

\* the loop over the particles of one event, from particle j on; acc holds
\* flow_event, number_particles, the exception raised, and whether a weight
\* taken from a particle went into number_particles
RECURSIVE ParticleLoop(_, _, _, _)
ParticleLoop(event, j, k, acc) ==
    IF j > Len(event) \/ acc.err # "none" THEN acc
    ELSE LET w == GetProperty(event[j], "weight_") IN
         IF w.err # "none" THEN [acc EXCEPT !.err = w.err]
         ELSE LET weight == IF w.val = PyNone THEN 1 ELSE w.val.v IN
              ParticleLoop(event, j + 1, k,
                  [acc EXCEPT
                      !.flow_event =
                          CAdd(@, CScale(weight, CPow(ExpIPhi(event[j]), k))),
                      !.number_particles = @ + weight,
                      !.from_particle = @ \/ w.val # PyNone])

\* the loop of integrated_flow over the events, from event e on
RECURSIVE EventLoop(_, _, _, _)
EventLoop(data, e, k, acc) ==
    IF e > Len(data) \/ acc.err # "none" THEN acc
    ELSE LET r == ParticleLoop(data[e], 1, k,
                               [acc EXCEPT !.flow_event = CZero])
         IN  IF r.err # "none" THEN r
             ELSE EventLoop(data, e + 1, k,
                     [r EXCEPT !.flow_event_average =
                         IF r.number_particles # 0
                         THEN CAdd(@, r.flow_event) ELSE CZero])

Acc0 ==
    [err |-> "none", flow_event |-> CZero, flow_event_average |-> CZero,
     number_particles |-> 0, from_particle |-> FALSE]

\* z / d as the code computes it: for d = 0 the division of a complex by a
\* float raises ZeroDivisionError, and gives nan without raising if the
\* denominator is a numpy scalar, which a weight taken from a particle can be
Divide(z, d, from_particle) ==
    IF d # 0 THEN {[err |-> "none", val |-> <<Quotient(z, d)>>]}
    ELSE {[err |-> "ZeroDivisionError", val |-> <<>>]}
         \cup (IF from_particle
               THEN {[err |-> "none", val |-> <<Quotient(z, 0)>>]}
               ELSE {})

\* integrated_flow(particle_data): the outcomes the call can have
integrated_flow(k, data) ==
    LET r == EventLoop(data, 1, k, Acc0)
    IN  IF r.err # "none" THEN {[err |-> r.err, val |-> <<>>]}
        ELSE Divide(r.flow_event_average, r.number_particles,
                    r.from_particle)

\* the arguments bins and flow_as_function_of of differential_flow
ListBins(b) == [t |-> "list", v |-> b]
NoListBins == [t |-> "other", v |-> <<>>]
StrVariable(x) == [t |-> "str", v |-> x]
NoStrVariable == [t |-> "other", v |-> ""]

\* the value a particle is binned by
Observable(p, variable) ==
    CASE variable = "pt" -> pt_abs(p)
      [] variable = "rapidity" -> momentum_rapidity_Y(p)
      [] variable = "pseudorapidity" -> pseudorapidity(p)

\* a slip: the upper boundary of a bin is taken into the bin
particles_bin_closed(data, bins, variable) ==
    [b \in 1..(Len(bins) - 1) |->
        [e \in 1..Len(data) |->
            SelectSeq(data[e], LAMBDA p :
                /\ Observable(p, variable) >= bins[b]
                /\ Observable(p, variable) <= bins[b + 1])]]

\* particles_bin of differential_flow: per bin, per event, the particles of
\* the event whose value lies in the bin
particles_bin(data, bins, variable) ==
    [b \in 1..(Len(bins) - 1) |->
        [e \in 1..Len(data) |->
            SelectSeq(data[e], LAMBDA p :
                /\ Observable(p, variable) >= bins[b]
                /\ Observable(p, variable) < bins[b + 1])]]

\* the loop of __differential_flow_calculation over the events of one bin
RECURSIVE BinEventLoop(_, _, _, _)
BinEventLoop(data, e, k, acc) ==
    IF e > Len(data) \/ acc.err # "none" THEN acc
    ELSE LET r == ParticleLoop(data[e], 1, k,
                               [acc EXCEPT !.flow_event = CZero])
         IN  IF r.err # "none" THEN r
             ELSE BinEventLoop(data, e + 1, k,
                     [r EXCEPT !.flow_event_average = CAdd(@, r.flow_event)])

\* a slip: the division of a bin is not guarded, as in integrated_flow
RECURSIVE differential_flow_calculation_unguarded(_, _, _)
differential_flow_calculation_unguarded(binned, b, k) ==
    IF b > Len(binned) THEN [err |-> "none", val |-> <<>>]
    ELSE LET r == BinEventLoop(binned[b], 1, k, Acc0)
             rest == differential_flow_calculation_unguarded(binned, b + 1, k)
         IN  IF r.err # "none" THEN [err |-> r.err, val |-> <<>>]
             ELSE IF rest.err # "none" THEN rest
             ELSE [err |-> "none",
                   val |-> <<Quotient(r.flow_event_average,
                                      r.number_particles)>> \o rest.val]

\* __differential_flow_calculation(binned_particle_data), from bin b on
RECURSIVE differential_flow_calculation(_, _, _)
differential_flow_calculation(binned, b, k) ==
    IF b > Len(binned) THEN [err |-> "none", val |-> <<>>]
    ELSE LET r == BinEventLoop(binned[b], 1, k, Acc0)
             rest == differential_flow_calculation(binned, b + 1, k)
         IN  IF r.err # "none" THEN [err |-> r.err, val |-> <<>>]
             ELSE IF rest.err # "none" THEN rest
             ELSE [err |-> "none",
                   val |-> <<IF r.number_particles # 0
                             THEN Quotient(r.flow_event_average,
                                           r.number_particles)
                             ELSE Quotient(CZero, 1)>> \o rest.val]

\* differential_flow(particle_data, bins, flow_as_function_of)
differential_flow(k, data, bins, variable) ==
    IF bins.t # "list" THEN [err |-> "TypeError", val |-> <<>>]
    ELSE IF variable.t # "str" THEN [err |-> "TypeError", val |-> <<>>]
    ELSE IF variable.v \notin {"pt", "rapidity", "pseudorapidity"}
    THEN [err |-> "ValueError", val |-> <<>>]
    ELSE differential_flow_calculation(
             particles_bin(data, bins.v, variable.v), 1, k)

\* the particles of the model: weights 1, -1 and unset, transverse momenta
\* 1, 2 and 3 along +x, +y and -x
FlowParticles ==
    {FlowParticle(Some(1), 1, 0), FlowParticle(Some(0 - 1), 0, 2),
     FlowParticle(None, 0 - 3, 0)}

RECURSIVE SeqsUpTo(_, _)
SeqsUpTo(S, k) ==
    IF k = 0 THEN {<<>>}
    ELSE SeqsUpTo(S, k - 1)
         \cup {Append(q, x) : q \in {r \in SeqsUpTo(S, k - 1) : Len(r) = k - 1},
                              x \in S}

\* the lists of at most m events that hold at most k particles
RECURSIVE EnsemblesOf(_, _)
EnsemblesOf(m, k) ==
    IF m = 0 THEN {<<>>}
    ELSE {<<>>}
         \cup UNION {{<<event>> \o d : d \in EnsemblesOf(m - 1, k - Len(event))} :
                        event \in SeqsUpTo(FlowParticles, k)}

Ensembles == EnsemblesOf(MaxFlowEvents, MaxParticles)

\* no list, an empty list, boundaries in descending order, one bin that
\* holds the rapidities and the two smaller momenta, and two bins with the
\* momentum 2 on the inner boundary
BinsArgs ==
    {NoListBins, ListBins(<<>>), ListBins(<<3, 1>>), ListBins(<<0, 3>>),
     ListBins(<<1, 2, 4>>)}

VariableArgs ==
    {StrVariable("pt"), StrVariable("rapidity"),
     StrVariable("pseudorapidity"), StrVariable("phi"), NoStrVariable}

\* ------------------------------------------------------ loader construction
\* a path is the sequence of its segments; exists says whether the file
\* system holds a file of that name
Segments == {"run", "/", ".dat", ".txt"}

Paths == UNION {[1..k -> Segments] : k \in 0..MaxPathLen}

PathArguments == [segs : Paths, exists : BOOLEAN]

DatPath == [segs |-> <<"run", ".dat">>, exists |-> TRUE]

\* '.dat' in JETSCAPE_FILE: no segment other than ".dat" holds a part of it
ContainsDat(path) == \E i \in 1..Len(path.segs) : path.segs[i] = ".dat"

\* BaseLoader.__init__(path)
BaseLoader_init(path) == IF path.exists THEN "none" ELSE "FileNotFoundError"

\* JetscapeLoader(JETSCAPE_FILE): the exception raised, or "none", and the
\* fields of the loader after the call
JetscapeLoader_init(path) ==
    IF BaseLoader_init(path) # "none"
    THEN [err |-> BaseLoader_init(path), PATH_JETSCAPE_ |-> None,
          particle_type_ |-> "unset"]
    ELSE IF ~ContainsDat(path)
    THEN [err |-> "FileNotFoundError", PATH_JETSCAPE_ |-> None,
          particle_type_ |-> "unset"]
    ELSE [err |-> "none", PATH_JETSCAPE_ |-> Some(path.segs),
          particle_type_ |-> "hadron"]

\* the lines of a file as text: a line is the sequence of its words, the
\* parts between white space; a line without words is a blank line
TextLine(words) == [k |-> "txt", words |-> words]

Words == {"#", "sigmaGen", "sigmaErr", "12", "3", "1e1", "nan"}

\* float(word): the number a word denotes, or ValueError
ParseFloat(word) ==
    CASE word = "12" -> [err |-> "none", t |-> "float", v |-> 12]
      [] word = "3" -> [err |-> "none", t |-> "float", v |-> 3]
      [] word = "1e1" -> [err |-> "none", t |-> "float", v |-> 10]
      [] word = "nan" -> [err |-> "none", t |-> "nan", v |-> 0]
      [] OTHER -> [err |-> "ValueError", t |-> "", v |-> 0]

\* get_last_line(file_path): the search for the line feed before the last
\* line starts two bytes before the end and walks back; it leaves the file
\* at its start (OSError) if no line precedes the last one
get_last_line(f) ==
    IF Len(f) < 2 THEN [err |-> "OSError", words |-> <<>>]
    ELSE [err |-> "none", words |-> f[Len(f)].words]

\* the loop of get_sigmaGen over the words, from word i on
RECURSIVE ScanWords(_, _, _)
ScanWords(words, i, numbers) ==
    IF i > Len(words) \/ Len(numbers) = 2 THEN numbers
    ELSE LET number == ParseFloat(words[i])
         IN  IF number.err # "none" THEN ScanWords(words, i + 1, numbers)
             ELSE ScanWords(words, i + 1,
                            Append(numbers, [t |-> number.t, v |-> number.v]))

\* the same loop from the last word back to the first
RECURSIVE ScanWordsBack(_, _, _)
ScanWordsBack(words, i, numbers) ==
    IF i < 1 \/ Len(numbers) = 2 THEN numbers
    ELSE LET number == ParseFloat(words[i])
         IN  IF number.err # "none" THEN ScanWordsBack(words, i - 1, numbers)
             ELSE ScanWordsBack(words, i - 1,
                            Append(numbers, [t |-> number.t, v |-> number.v]))

NoSigmaReturn == [op |-> "none", err |-> "none", val |-> <<>>]

\* a slip: the last line is scanned backward
get_sigmaGen_backward(f) ==
    LET last_line == get_last_line(f)
        numbers == ScanWordsBack(last_line.words, Len(last_line.words), <<>>)
    IN  IF last_line.err # "none"
        THEN [op |-> "get_sigmaGen", err |-> last_line.err, val |-> <<>>]
        ELSE IF Len(numbers) < 2
        THEN [op |-> "get_sigmaGen", err |-> "IndexError", val |-> <<>>]
        ELSE [op |-> "get_sigmaGen", err |-> "none",
              val |-> <<numbers[1], numbers[2]>>]

\* get_sigmaGen()
get_sigmaGen(f) ==
    LET last_line == get_last_line(f)
        numbers == ScanWords(last_line.words, 1, <<>>)
    IN  IF last_line.err # "none"
        THEN [op |-> "get_sigmaGen", err |-> last_line.err, val |-> <<>>]
        ELSE IF Len(numbers) < 2
        THEN [op |-> "get_sigmaGen", err |-> "IndexError", val |-> <<>>]
        ELSE [op |-> "get_sigmaGen", err |-> "none",
              val |-> <<numbers[1], numbers[2]>>]

\* the last lines of the model: the sigmaGen line of the format, one that
\* lacks the error, three numbers, a blank line, and a nan
TextLines ==
    {TextLine(<<"#", "sigmaGen", "12", "sigmaErr", "3">>),
     TextLine(<<"#", "sigmaGen", "12">>),
     TextLine(<<"3", "1e1", "12">>),
     TextLine(<<>>),
     TextLine(<<"nan", "#", "3">>)}

TextFiles == UNION {[1..k -> TextLines] : k \in 0..MaxTextLines}

\* ------------------------------------------------------------ state machine
\* the values of the variables of an object no call has been made on
LoaderFieldsIdle ==
    /\ optional_arguments_ = None
    /\ particle_type_ = "unset"
    /\ particle_type_defining_string_ = "unset"
    /\ num_output_per_event_ = <<>>
    /\ num_events_ = 0
    /\ ret = NoReturn("nocall", "")
    /\ indexed = FALSE
    /\ filter_trace = <<>>
    /\ loads = 0

LoaderIdle == file = <<>> /\ LoaderFieldsIdle

NoGot == [op |-> "none", name |-> "", err |-> "none", val |-> PyNone,
          warn |-> FALSE]

NotConstructed ==
    /\ PATH_JETSCAPE_ = None
    /\ init_ret = "nocall"
    /\ sigma_ret = NoSigmaReturn

ParticleIdle ==
    /\ particle_input = NoInput
    /\ particle = Particle0
    /\ alive = FALSE
    /\ got = NoGot
    /\ ops = 0

NoFlowReturn == [op |-> "none", err |-> "none", val |-> <<>>,
                 bins |-> <<>>, bins_list |-> FALSE, variable |-> ""]

FlowIdle ==
    /\ n_arg = None
    /\ n_ = None
    /\ particle_data = <<>>
    /\ flow_ret = NoFlowReturn

\* a loader constructed from the path of a file, before its first load
Init ==
    /\ file \in Files
    /\ optional_arguments_ = None
    /\ particle_type_ = "hadron"
    /\ particle_type_defining_string_ = "unset"
    /\ num_output_per_event_ = <<>>
    /\ num_events_ = 0
    /\ ret = NoReturn("nocall", "")
    /\ indexed = FALSE
    /\ filter_trace = <<>>
    /\ loads = 0
    /\ JETSCAPE_FILE = DatPath
    /\ PATH_JETSCAPE_ = JetscapeLoader_init(DatPath).PATH_JETSCAPE_
    /\ init_ret = JetscapeLoader_init(DatPath).err
    /\ sigma_ret = NoSigmaReturn
    /\ ParticleIdle
    /\ FlowIdle

Load(kw) ==
    \E r \in {load(file, particle_type_, particle_type_defining_string_,
                  num_output_per_event_, num_events_, kw)} :
        /\ loads < MaxLoads
        /\ loads' = loads + 1
        /\ optional_arguments_' = kw
        /\ particle_type_' = r.particle_type_
        /\ particle_type_defining_string_' = r.defstr
        /\ num_output_per_event_' = r.nope
        /\ num_events_' = r.nev
        /\ ret' = r.ret
        /\ indexed' = r.indexed
        /\ filter_trace' = r.trace
        /\ UNCHANGED <<file, initVars, particleVars, flowVars>>

Next == \E kw \in KwargsSet : Load(kw)

Spec == Init /\ [][Next]_vars

\* ---------------------------------------- state machine: loader construction
InitLoader ==
    /\ JETSCAPE_FILE \in PathArguments
    /\ file \in TextFiles
    /\ NotConstructed
    /\ LoaderFieldsIdle
    /\ ParticleIdle
    /\ FlowIdle

Construct ==
    \E r \in {JetscapeLoader_init(JETSCAPE_FILE)} :
        /\ init_ret = "nocall"
        /\ init_ret' = r.err
        /\ PATH_JETSCAPE_' = r.PATH_JETSCAPE_
        /\ particle_type_' = r.particle_type_
        /\ UNCHANGED <<JETSCAPE_FILE, sigma_ret, file, optional_arguments_,
                       particle_type_defining_string_, num_output_per_event_,
                       num_events_, ret, indexed, filter_trace, loads,
                       particleVars, flowVars>>

\* loader.get_sigmaGen()
GetSigmaGen ==
    /\ init_ret = "none"
    /\ sigma_ret' = get_sigmaGen(file)
    /\ UNCHANGED <<JETSCAPE_FILE, PATH_JETSCAPE_, init_ret, loaderVars,
                   particleVars, flowVars>>

NextLoader == Construct \/ GetSigmaGen

SpecLoader == InitLoader /\ [][NextLoader]_vars

\* ------------------------------------------------- state machine: Particle
InitParticle ==
    /\ particle_input \in ParticleInputs
    /\ particle = Particle0
    /\ alive = FALSE
    /\ got = NoGot
    /\ ops = 0
    /\ LoaderIdle
    /\ JETSCAPE_FILE = DatPath
    /\ NotConstructed
    /\ FlowIdle

\* Particle(input_format, particle_array)
NewParticle ==
    \E r \in {Particle_init(particle_input)} :
        /\ got.op = "none"
        /\ particle' = r.p
        /\ alive' = (r.err = "none")
        /\ got' = [op |-> "init", name |-> "", err |-> r.err, val |-> PyNone,
                   warn |-> r.warn]
        /\ UNCHANGED <<particle_input, ops, loaderVars, initVars, flowVars>>

\* particle.<a> = value
Set(a, value) ==
    \E r \in {SetProperty(particle, a, value)} :
        /\ alive /\ ops < MaxOps
        /\ ops' = ops + 1
        /\ particle' = r.p
        /\ got' = [op |-> "set", name |-> a, err |-> "none", val |-> PyNone,
                   warn |-> r.warn]
        /\ UNCHANGED <<particle_input, alive, loaderVars, initVars, flowVars>>

\* particle.<a>
Get(a) ==
    \E r \in {GetProperty(particle, a)} :
        /\ alive /\ ops < MaxOps
        /\ ops' = ops + 1
        /\ got' = [op |-> "get", name |-> a, err |-> r.err, val |-> r.val,
                   warn |-> r.warn]
        /\ UNCHANGED <<particle_input, particle, alive, loaderVars, initVars,
                       flowVars>>

\* particle.<q>()
Ask(q) ==
    \E r \in {Query(particle, q)} :
        /\ alive /\ ops < MaxOps
        /\ ops' = ops + 1
        /\ got' = [op |-> "query", name |-> q, err |-> r.err, val |-> r.val,
                   warn |-> FALSE]
        /\ UNCHANGED <<particle_input, particle, alive, loaderVars, initVars,
                       flowVars>>

NextParticle ==
    \/ NewParticle
    \/ \E a \in Properties, value \in SetValues : Set(a, value)
    \/ \E a \in Properties : Get(a)
    \/ \E q \in Queries : Ask(q)

SpecParticle == InitParticle /\ [][NextParticle]_vars

\* ---------------------------------------- state machine: ReactionPlaneFlow
InitFlow ==
    /\ n_arg \in NArgs
    /\ particle_data \in Ensembles
    /\ n_ = None
    /\ flow_ret = NoFlowReturn
    /\ LoaderIdle
    /\ JETSCAPE_FILE = DatPath
    /\ NotConstructed
    /\ ParticleIdle

\* ReactionPlaneFlow(n)
NewFlow ==
    \E r \in {ReactionPlaneFlow_init(n_arg)} :
        /\ flow_ret.op = "none"
        /\ n_' = r.n_
        /\ flow_ret' = [NoFlowReturn EXCEPT !.op = "init", !.err = r.err]
        /\ UNCHANGED <<n_arg, particle_data, loaderVars, initVars,
                       particleVars>>

\* flow.integrated_flow(particle_data)
IntegratedFlow ==
    /\ n_ # None
    /\ \E r \in integrated_flow(Val(n_).v, particle_data) :
          flow_ret' = [NoFlowReturn EXCEPT !.op = "integrated_flow",
                                         !.err = r.err, !.val = r.val]
    /\ UNCHANGED <<n_arg, n_, particle_data, loaderVars, initVars,
                   particleVars>>

\* flow.differential_flow(particle_data, bins, flow_as_function_of)
DifferentialFlow(bins, variable) ==
    /\ n_ # None
    /\ \E r \in {differential_flow(Val(n_).v, particle_data, bins,
                                    variable)} :
          flow_ret' = [op |-> "differential_flow", err |-> r.err,
                       val |-> r.val, bins |-> bins.v,
                       bins_list |-> bins.t = "list",
                       variable |-> variable.v]
    /\ UNCHANGED <<n_arg, n_, particle_data, loaderVars, initVars,
                   particleVars>>

NextFlow ==
    \/ NewFlow
    \/ IntegratedFlow
    \/ \E bins \in BinsArgs, variable \in VariableArgs :
          DifferentialFlow(bins, variable)

SpecFlow == InitFlow /\ [][NextFlow]_vars

\* ------------------------------------------------------- reading the state
\* the options of the last load call
kwargs == optional_arguments_
Called == loads > 0
Returned == Called /\ ret.err = "none"

\* what the file says, read off its lines
EventLines(f) == SelectSeq(f, LAMBDA l : l.k = "evt")
NumFileEvents(f) == Len(EventLines(f))
DeclaredCount(f, k) == EventLines(f)[k + 1].n

\* the file is well formed and its boundary keyword is the one searched for
WellFormedForType ==
    \/ file \in HadronFiles /\ particle_type_defining_string_ = "N_hadrons"
    \/ file \in PartonFiles /\ particle_type_defining_string_ = "N_partons"

OtherOptionsValid ==
    /\ ~kwargs.other
    /\ kwargs.particletype.t \in {"absent", "str"}
    /\ kwargs.particletype.t = "str"
          => kwargs.particletype.v \in {"hadron", "parton"}

MarkerCount ==
    Len(SelectSeq(file, LAMBDA l :
            l.k \in {"hdr", "evt", "sig"} /\ l.k = "evt"
            /\ l.kw = particle_type_defining_string_))

C5_FullLoadReconciled ==
    /\ (Returned /\ NoEvents(kwargs))
          => /\ Len(ret.particle_list) = MarkerCount
             /\ ret.num_events = MarkerCount
    /\ (Called /\ ret.msg = "mismatch") => ret.err = "IndexError"

C5_Witness ==
    /\ Called /\ NoEvents(kwargs) /\ file \in DupNumberFiles
    /\ ret.err = "IndexError" /\ ret.msg = "mismatch"
    /\ MarkerCount = 2

\* C7: with a filters mapping holding both charged_particles and pt_cut, the
\* charge filter is applied to an event before the pt cut, whatever the order
\* of the two keys in the mapping.
C7_ChargeBeforePt ==
    (/\ Called /\ kwargs.filters.present
     /\ \E j \in 1..Len(kwargs.filters.dict) : kwargs.filters.dict[j] = Charged
     /\ \E j \in 1..Len(kwargs.filters.dict) : kwargs.filters.dict[j] = PtCut
     /\ Len(filter_trace) = 2)
    => filter_trace = <<"charged_particles", "pt_cut">>

\* C8: an invalid events option is rejected and no collection is returned:
\* start > end is a ValueError, a negative index or endpoint is a ValueError,
\* a value that is neither an int nor a tuple is a TypeError (the other
\* options being valid).
InvalidEvents(ev) ==
    \/ ev.t = "tuple" /\ (ev.a > ev.b \/ ev.a < 0 \/ ev.b < 0)
    \/ ev.t = "int" /\ ev.a < 0
    \/ ev.t = "float"

C8_InvalidEventsRejected ==
    /\ (Called /\ InvalidEvents(kwargs.events))
          => ret.err # "none" /\ ret.particle_list = <<>>
    /\ (Called /\ OtherOptionsValid /\ InvalidEvents(kwargs.events))
          => ret.err = IF kwargs.events.t = "float" THEN "TypeError"
                       ELSE "ValueError"

C8_Witness ==
    /\ Called /\ OtherOptionsValid /\ kwargs.events = TupleEvents(1, 0)
    /\ ret.err = "ValueError" /\ NumFileEvents(file) = 2

\* C9: for a file with N events, load(events=k) with k >= N and
\* load(events=(a,b)) with b >= N, whether or not a < N, fail with
\* IndexError; the existing part of the range is not returned.
C9_OutOfRangeRejected ==
    (/\ Called /\ OtherOptionsValid /\ ~InvalidEvents(kwargs.events)
     /\ \/ kwargs.events.t = "int" /\ kwargs.events.a >= MarkerCount
        \/ kwargs.events.t = "tuple" /\ kwargs.events.b >= MarkerCount)
    => ret.err = "IndexError" /\ ret.particle_list = <<>>

C9_Witness ==
    /\ Called /\ kwargs.events = TupleEvents(1, 2) /\ MarkerCount = 2
    /\ WellFormedForType /\ ret.err = "IndexError"

\* C10: a key other than events, filters and particletype makes load fail
\* with ValueError, whatever the other options are, before the file is
\* indexed or read.
C10_UnknownOptionRejected ==
    (Called /\ kwargs.other)
    => ret.err = "ValueError" /\ ret.msg = "option" /\ ~indexed

C10_Witness ==
    /\ Called /\ kwargs.other /\ kwargs.filters = Filters(<<UnknownCut>>)
    /\ kwargs.particletype = StrType("quark")
    /\ kwargs.events = TupleEvents(1, 0)
    /\ ret.err = "ValueError" /\ ~indexed

\* the lines of the file that belong to the events a..b (0-based): the header
\* line, the lines from the boundary line of event a up to the line before
\* the boundary line of event b + 1, and the last line
EventPositions(f) == {i \in 1..Len(f) : f[i].k = "evt"}

PositionOf(f, k) ==
    CHOOSE i \in EventPositions(f) :
        Cardinality({j \in EventPositions(f) : j < i}) = k

LoadedWindow(f, a, b) ==
    <<f[1]>>
    \o SubSeq(f, PositionOf(f, a),
              IF b + 1 < NumFileEvents(f) THEN PositionOf(f, b + 1) - 1
              ELSE Len(f) - 1)
    \o <<f[Len(f)]>>

FirstLoaded == IF kwargs.events.t = "absent" THEN 0 ELSE kwargs.events.a

LastLoaded ==
    CASE kwargs.events.t = "absent" -> NumFileEvents(file) - 1
      [] kwargs.events.t = "int" -> kwargs.events.a
      [] OTHER -> kwargs.events.b

KeywordLines(f, kw) == Len(SelectSeq(f, LAMBDA l : l.k = "evt" /\ l.kw = kw))

\* C11: load(particletype="parton") makes N_partons the boundary keyword the
\* index pass searches for, load(particletype="hadron") makes it N_hadrons;
\* any other string fails with ValueError and a value that is not a string
\* fails with TypeError (the other options being valid).
C11_ParticleTypeOption ==
    (Called /\ ~kwargs.other /\ ~InvalidEvents(kwargs.events))
    => /\ \A t \in {"hadron", "parton"} :
            kwargs.particletype = StrType(t)
            => /\ indexed
               /\ particle_type_ = t
               /\ particle_type_defining_string_
                     = (IF t = "parton" THEN "N_partons" ELSE "N_hadrons")
               /\ NoEvents(kwargs)
                     => num_events_
                          = KeywordLines(file, particle_type_defining_string_)
       /\ (kwargs.particletype.t = "str"
            /\ kwargs.particletype.v \notin {"hadron", "parton"})
          => ret.err = "ValueError" /\ ret.msg = "option" /\ ~indexed
       /\ kwargs.particletype.t = "other"
          => ret.err = "TypeError" /\ ret.msg = "option" /\ ~indexed

C11_Witness ==
    /\ Returned /\ kwargs.particletype = StrType("parton")
    /\ file \in PartonFiles /\ particle_type_defining_string_ = "N_partons"
    /\ ret.num_events = 2 /\ KeywordLines(file, "N_hadrons") = 0

\* the extension of the path is .dat: its last segment is ".dat" and is not
\* the whole name of the file
HasDatExtension(path) ==
    /\ Len(path.segs) >= 2
    /\ path.segs[Len(path.segs)] = ".dat"
    /\ path.segs[Len(path.segs) - 1] # "/"

\* C12: constructing the loader fails with FileNotFoundError for every path
\* whose extension is not .dat, paths that hold the text .dat elsewhere
\* included, and for every path that does not exist.
C12_ConstructorRejects ==
    (/\ init_ret # "nocall"
     /\ ~HasDatExtension(JETSCAPE_FILE) \/ ~JETSCAPE_FILE.exists)
    => init_ret = "FileNotFoundError" /\ PATH_JETSCAPE_ = None

\* the number of columns a layout declares
DeclaredColumns(f) ==
    CASE f = "Oscar2013" -> 12
      [] f = "Oscar2013Extended_Photons" -> 21
      [] f = "JETSCAPE" -> 7
      [] f \in {"Oscar2013Extended", "Oscar2013Extended_IC"} -> 22

\* the arguments name one of the five layouts and give a number of values
\* the layout accepts
AcceptedShape(args) ==
    /\ args.input_format # None /\ args.particle_array # None
    /\ Val(args.input_format)
          \in {"Oscar2013", "Oscar2013Extended", "Oscar2013Extended_IC",
               "Oscar2013Extended_Photons", "JETSCAPE"}
    /\ LET f == Val(args.input_format)
           k == Len(Val(args.particle_array))
       IN  \/ k = DeclaredColumns(f)
           \/ /\ f \in {"Oscar2013Extended", "Oscar2013Extended_IC"}
              /\ k \in {DeclaredColumns(f) - 1, DeclaredColumns(f) - 2}

\* C13: a record is constructed from a layout with N declared columns only
\* with exactly N values (12, 21 and 7 for Oscar2013, the Photons layout and
\* JETSCAPE), except that the two Extended layouts (N = 22) also accept N - 1
\* or N - 2 values and leave the missing trailing fields unset; every other
\* length and every other layout name fails with ValueError.
C13_ColumnCount ==
    (/\ got.op = "init"
     /\ particle_input.input_format # None
     /\ particle_input.particle_array # None)
    => IF AcceptedShape(particle_input)
       THEN /\ got.err = "none"
            /\ LET cols == attribute_mapping(Val(particle_input.input_format))
                   arr == Val(particle_input.particle_array)
               IN  /\ Len(cols)
                        = DeclaredColumns(Val(particle_input.input_format))
                   /\ \A i \in 1..Len(cols) :
                        particle[cols[i]]
                          = (IF i <= Len(arr) THEN Some(arr[i]) ELSE None)
       ELSE got.err = "ValueError"

C13_Witness ==
    /\ got.op = "init" /\ got.err = "none"
    /\ particle_input.input_format = Some("Oscar2013Extended")
    /\ particle_input.particle_array # None
    /\ Len(Val(particle_input.particle_array)) = 20
    /\ particle["pdg_mother2_"] = Some(19)
    /\ particle["baryon_number_"] = None
    /\ particle["strangeness_"] = None

\* C14: a record constructed with the JETSCAPE layout from values whose PDG
\* code is valid has, right after construction, a charge that is set and is
\* the charge the PDG lookup gives for the code.
C14_JetscapeChargeDerived ==
    (/\ got.op = "init" /\ got.err = "none"
     /\ particle_input.input_format = Some("JETSCAPE")
     /\ PDGValid(Val(particle["pdg_"])))
    => /\ particle["charge_"] = Some(PDGCharge(Val(particle["pdg_"])))
       /\ GetProperty(particle, "charge_").err = "none"

InvalidCode == particle["pdg_"] # None /\ ~PDGValid(Val(particle["pdg_"]))

\* C16: for a record whose PDG code is invalid every PDG-derived query
\* returns its neutral default and raises nothing: False for is_meson,
\* is_baryon, is_hadron, is_strange and is_heavy_flavor, None for
\* compute_charge_from_pdg, spin and spin_degeneracy.  Constructing such a
\* record or assigning such a code emits a warning and does not fail.
C16_InvalidCodeDegrades ==
    /\ (got.op = "query" /\ InvalidCode)
          => /\ got.err = "none"
             /\ got.val = (IF got.name \in {"is_meson", "is_baryon",
                                             "is_hadron", "is_strange",
                                             "is_heavy_flavor"}
                           THEN PyBool(FALSE) ELSE PyNone)
    /\ (got.op = "init" /\ AcceptedShape(particle_input) /\ InvalidCode)
          => got.err = "none" /\ got.warn
    /\ (got.op = "set" /\ got.name = "pdg_" /\ InvalidCode)
          => got.err = "none" /\ got.warn

C16_Witness ==
    /\ particle_input.input_format = Some("JETSCAPE")
    /\ particle["pdg_"] = Some(9) /\ particle["pdg_valid_"] = Some(FALSE)
    /\ got = [op |-> "query", name |-> "spin", err |-> "none",
              val |-> PyNone, warn |-> FALSE]

\* the argument is an integer: an int, or a bool, which is an int too
IsIntegerArg(x) == x.t = "int" \/ x.t = "bool"

\* C17: constructing a flow estimator with an n that is not an integer fails
\* with TypeError, with an integer n <= 0 with ValueError; for an estimator
\* that was constructed the stored harmonic is the n given, and it is the
\* same after any sequence of integrated_flow and differential_flow calls.
C17_HarmonicFixed ==
    /\ flow_ret.op = "init"
          => /\ ~IsIntegerArg(n_arg)
                   => flow_ret.err = "TypeError" /\ n_ = None
             /\ (IsIntegerArg(n_arg) /\ n_arg.v <= 0)
                   => flow_ret.err = "ValueError" /\ n_ = None
             /\ (IsIntegerArg(n_arg) /\ n_arg.v > 0)
                   => flow_ret.err = "none" /\ n_ = Some(n_arg)
    /\ flow_ret.op \in {"integrated_flow", "differential_flow"}
          => n_ = Some(n_arg) /\ IsIntegerArg(n_arg) /\ n_arg.v > 0

C17_Witness ==
    /\ flow_ret.op = "differential_flow" /\ flow_ret.err = "none"
    /\ Len(flow_ret.val) = 2
    /\ n_arg = [t |-> "int", v |-> 2] /\ n_ = Some(n_arg)
    /\ Len(particle_data) = 2

\* the particles of all events, in order
RECURSIVE Flatten(_)
Flatten(data) ==
    IF data = <<>> THEN <<>> ELSE Head(data) \o Flatten(Tail(data))

AllWeightsSet(data) ==
    \A j \in 1..Len(Flatten(data)) : Flatten(data)[j].weight_ # None

NoWeightSet(data) ==
    \A j \in 1..Len(Flatten(data)) : Flatten(data)[j].weight_ = None

\* the weight of a particle, an unset weight counting as 1
WeightOrOne(p) == IF p.weight_ = None THEN 1 ELSE Val(p.weight_)

\* the sum of weight * exp(i k phi) and the sum of the weights over a list
\* of particles
RECURSIVE WeightedSum(_, _)
WeightedSum(ps, k) ==
    IF ps = <<>> THEN CZero
    ELSE CAdd(CScale(WeightOrOne(Head(ps)), CPow(ExpIPhi(Head(ps)), k)),
              WeightedSum(Tail(ps), k))

RECURSIVE TotalWeight(_)
TotalWeight(ps) ==
    IF ps = <<>> THEN 0 ELSE WeightOrOne(Head(ps)) + TotalWeight(Tail(ps))

\* the returned quotient q is the complex number z / d
IsQuotient(q, z, d) ==
    /\ q.den # 0
    /\ q.re * d = z.re * q.den
    /\ q.im * d = z.im * q.den

\* C18: integrated_flow and differential_flow take a particle whose weight
\* is unset as having weight 1: for an ensemble of particles without a
\* weight the call raises nothing, and integrated_flow returns the value
\* computed with every weight equal to 1.
C18_UnsetWeightIsOne ==
    (n_ # None /\ NoWeightSet(particle_data) /\ Flatten(particle_data) # <<>>)
    => /\ flow_ret.op = "integrated_flow"
             => /\ flow_ret.err = "none"
                /\ Len(flow_ret.val) = 1
                /\ IsQuotient(flow_ret.val[1],
                              WeightedSum(Flatten(particle_data), Val(n_).v),
                              TotalWeight(Flatten(particle_data)))
       /\ (/\ flow_ret.op = "differential_flow"
           /\ flow_ret.variable \in {"pt", "rapidity", "pseudorapidity"}
           /\ Len(flow_ret.bins) >= 2)
             => flow_ret.err = "none"

\* C19: integrated_flow accumulates flat over the ensemble: for every list
\* of events and every assignment of weights, zero and negative ones
\* included, whose total is not zero, the result is the sum of the weighted
\* contributions of all particles of all events divided by the sum of all
\* weights, whatever the grouping into events and the running weight total
\* after a prefix of the events.
C19_FlatAccumulation ==
    (/\ flow_ret.op = "integrated_flow"
     /\ AllWeightsSet(particle_data)
     /\ TotalWeight(Flatten(particle_data)) # 0)
    => /\ flow_ret.err = "none"
       /\ Len(flow_ret.val) = 1
       /\ IsQuotient(flow_ret.val[1],
                     WeightedSum(Flatten(particle_data), Val(n_).v),
                     TotalWeight(Flatten(particle_data)))

\* C20: if the total weight of the ensemble is exactly zero (an empty list
\* of events, only empty events, weights that sum to zero), integrated_flow
\* returns the complex zero and divides nothing by zero.
C20_ZeroWeightIsZero ==
    (/\ flow_ret.op = "integrated_flow"
     /\ AllWeightsSet(particle_data)
     /\ TotalWeight(Flatten(particle_data)) = 0)
    => /\ flow_ret.err = "none"
       /\ Len(flow_ret.val) = 1
       /\ IsQuotient(flow_ret.val[1], CZero, 1)

\* the boundaries are in strictly increasing order
StrictlyIncreasing(bins) ==
    \A i \in 1..(Len(bins) - 1) : bins[i] < bins[i + 1]

\* differential_flow was called with a list of boundaries and one of the
\* three observables
BinnedCall ==
    /\ flow_ret.op = "differential_flow"
    /\ flow_ret.bins_list
    /\ flow_ret.variable \in {"pt", "rapidity", "pseudorapidity"}

\* C21: differential_flow takes bins only if it is a sequence of at least 2
\* boundaries in strictly increasing order; with fewer than 2 entries or
\* with boundaries that are not strictly increasing the call fails with an
\* error and returns no result.
C21_InvalidBinsRejected ==
    (/\ BinnedCall
     /\ \/ Len(flow_ret.bins) < 2
        \/ ~StrictlyIncreasing(flow_ret.bins))
    => flow_ret.err # "none"

\* how often the particle p occurs in the list ps
RECURSIVE Count(_, _)
Count(p, ps) ==
    IF ps = <<>> THEN 0
    ELSE (IF Head(ps) = p THEN 1 ELSE 0) + Count(p, Tail(ps))

\* the bins that hold the particle p of event e
BinsHolding(binned, e, p) ==
    {b \in 1..Len(binned) : Count(p, binned[b][e]) > 0}

\* C22: the bins of differential_flow partition the particles: for strictly
\* increasing bins every particle whose observable v has
\* bins[0] <= v < bins[-1] is placed in exactly one bin, the bin k with
\* bins[k] <= v < bins[k+1] (a value on an inner boundary goes to the upper
\* bin), within its own event; a particle with v < bins[0] or
\* v >= bins[-1] is placed in no bin.
C22_BinPartition ==
    (BinnedCall /\ Len(flow_ret.bins) >= 2
                /\ StrictlyIncreasing(flow_ret.bins))
    => LET bins == flow_ret.bins
           binned == particles_bin(particle_data, bins, flow_ret.variable)
       IN  /\ Len(binned) = Len(bins) - 1
           /\ \A b \in 1..Len(binned) : Len(binned[b]) = Len(particle_data)
           /\ \A e \in 1..Len(particle_data) :
                 \A j \in 1..Len(particle_data[e]) :
                    LET p == particle_data[e][j]
                        v == Observable(p, flow_ret.variable)
                        holding == BinsHolding(binned, e, p)
                    IN  /\ \A b \in holding :
                              Count(p, binned[b][e])
                                  = Count(p, particle_data[e])
                        /\ IF bins[1] <= v /\ v < bins[Len(bins)]
                           THEN \E k \in 1..(Len(bins) - 1) :
                                   /\ holding = {k}
                                   /\ bins[k] <= v /\ v < bins[k + 1]
                           ELSE holding = {}

\* a call with two bins, a particle on the inner boundary, one in the lower
\* bin, and a returned list
C22_Witness ==
    /\ BinnedCall /\ flow_ret.err = "none"
    /\ flow_ret.bins = <<1, 2, 4>> /\ flow_ret.variable = "pt"
    /\ \E e \in 1..Len(particle_data) :
          /\ \E j \in 1..Len(particle_data[e]) :
                pt_abs(particle_data[e][j]) = 2
          /\ \E j \in 1..Len(particle_data[e]) :
                pt_abs(particle_data[e][j]) = 1

\* the particles of all events whose observable lies in the k-th interval
\* of the bins of the call
BinMembers(k) ==
    SelectSeq(Flatten(particle_data), LAMBDA p :
        /\ flow_ret.bins[k] <= Observable(p, flow_ret.variable)
        /\ Observable(p, flow_ret.variable) < flow_ret.bins[k + 1])

\* every particle that lies in an interval of the bins carries a weight
BinnedWeightsSet ==
    \A k \in 1..(Len(flow_ret.bins) - 1) :
        \A j \in 1..Len(BinMembers(k)) : BinMembers(k)[j].weight_ # None

\* C23: differential_flow returns exactly len(bins)-1 values, the k-th one
\* being the value of the particles in [bins[k], bins[k+1]); a bin that
\* receives no particle, or whose particles have total weight zero, gives
\* the complex zero and nothing is divided by zero.
C23_OneValuePerBin ==
    (BinnedCall /\ Len(flow_ret.bins) >= 2 /\ BinnedWeightsSet)
    => /\ flow_ret.err = "none"
       /\ Len(flow_ret.val) = Len(flow_ret.bins) - 1
       /\ \A k \in 1..(Len(flow_ret.bins) - 1) :
             IF TotalWeight(BinMembers(k)) = 0
             THEN IsQuotient(flow_ret.val[k], CZero, 1)
             ELSE IsQuotient(flow_ret.val[k],
                             WeightedSum(BinMembers(k), Val(n_).v),
                             TotalWeight(BinMembers(k)))

\* the one bin of the call holds two particles whose weights sum to zero
C23_Witness ==
    /\ BinnedCall /\ flow_ret.err = "none"
    /\ flow_ret.bins = <<0, 3>> /\ flow_ret.variable = "pt"
    /\ Len(flow_ret.val) = 1
    /\ Len(BinMembers(1)) = 2
    /\ BinnedWeightsSet
    /\ TotalWeight(BinMembers(1)) = 0

\* two quotients are the same complex number
SameValue(q1, q2) ==
    /\ q1.den # 0 /\ q2.den # 0
    /\ q1.re * q2.den = q2.re * q1.den
    /\ q1.im * q2.den = q2.im * q1.den

\* C25: for each bin, differential_flow computes the value integrated_flow
\* returns for the same events restricted to the particles of the bin: for
\* every ensemble, every assignment of weights, zero and negative ones
\* included, and every bin k, differential_flow(...)[k] equals
\* integrated_flow of the per-event sub-lists of bin k.
C25_BinIsIntegrated ==
    (BinnedCall /\ Len(flow_ret.bins) >= 2 /\ BinnedWeightsSet)
    => LET binned == particles_bin(particle_data, flow_ret.bins,
                                   flow_ret.variable)
       IN  /\ flow_ret.err = "none"
           /\ \A k \in 1..Len(binned) :
                 \A r \in integrated_flow(Val(n_).v, binned[k]) :
                    /\ r.err = "none"
                    /\ SameValue(flow_ret.val[k], r.val[1])

\* the numbers of the words of a line that float() parses, in the order of
\* the line
RECURSIVE FloatsOf(_)
FloatsOf(words) ==
    IF words = <<>> THEN <<>>
    ELSE (IF ParseFloat(Head(words)).err = "none"
          THEN <<[t |-> ParseFloat(Head(words)).t,
                  v |-> ParseFloat(Head(words)).v]>>
          ELSE <<>>) \o FloatsOf(Tail(words))

\* C24: get_sigmaGen returns the pair (cross section, error) of the first
\* two words of the last line of the file that parse as floating-point
\* numbers, in the order of the line; words that are no numbers, such as
\* the comment sign and the sigmaGen keyword, are skipped.
C24_SigmaGenPair ==
    (/\ sigma_ret.op = "get_sigmaGen"
     /\ Len(file) >= 2
     /\ Len(FloatsOf(file[Len(file)].words)) >= 2)
    => /\ sigma_ret.err = "none"
       /\ sigma_ret.val = <<FloatsOf(file[Len(file)].words)[1],
                            FloatsOf(file[Len(file)].words)[2]>>

\* the sigmaGen line of the format: the sign and two keywords are skipped
C24_Witness ==
    /\ sigma_ret.op = "get_sigmaGen" /\ sigma_ret.err = "none"
    /\ Len(file) = 2
    /\ file[2].words = <<"#", "sigmaGen", "12", "sigmaErr", "3">>
    /\ sigma_ret.val = <<[t |-> "float", v |-> 12], [t |-> "float", v |-> 3]>>

\* the table the index pass of the last load made, and the window of lines
\* computed from it: the lines skipped and the lines to read
IndexedTable == set_num_output_per_event(file, particle_type_defining_string_)
SkipCount == _get_num_skip_lines(kwargs, IndexedTable)
ReadCount == get_num_read_lines(kwargs, IndexedTable)

WindowComputed ==
    /\ Called /\ indexed
    /\ ReadCount.err = "none" /\ SkipCount.err = "none"

\* the window of lines reaches past the last line of the file
FileRunsOut ==
    WindowComputed /\ SkipCount.val + ReadCount.val > Len(file)

\* the first line of the window is a comment line or holds 'weight'
FirstLineIsHeader ==
    SkipCount.val + 1 <= Len(file)
    => \/ HasHash(file[SkipCount.val + 1])
       \/ HasWeight(file[SkipCount.val + 1])

FirstLineIsData ==
    /\ WindowComputed
    /\ SkipCount.val + 1 <= Len(file)
    /\ ~HasHash(file[SkipCount.val + 1])
    /\ ~HasWeight(file[SkipCount.val + 1])

\* C27: if the first line of the window is neither a comment line (no '#')
\* nor a line that holds 'weight', load fails with ValueError and makes no
\* record of that line.
C27_CorruptHeader ==
    FirstLineIsData
    => /\ ret.err = "ValueError" /\ ret.msg = "first"
       /\ ret.particle_list = <<>>

\* a full load of a file whose header line is followed by a data line
C27_Witness ==
    /\ FirstLineIsData /\ file \in NoFirstHeaderFiles /\ NoEvents(kwargs)
    /\ file[2].k = "dat"
    /\ ret.err = "ValueError" /\ ret.msg = "first"

\* C28: after any sequence of constructions from an array of values and
\* assignments to pdg, the stored validity flag of a record is the validity
\* the PDG lookup reports for the code the record holds now, so that the
\* PDG-derived queries answer for the current code and never for the
\* validity of a code held before.
C28_ValidityTracksCode ==
    alive
    => /\ particle["pdg_"] = None => particle["pdg_valid_"] = None
       /\ particle["pdg_"] # None
             => particle["pdg_valid_"]
                   = Some(PDGValid(Val(particle["pdg_"])))
       /\ (got.op = "query" /\ particle["pdg_"] # None)
             => /\ got.err = "none"
                /\ PDGValid(Val(particle["pdg_"]))
                      => got.val = PDGLookup(got.name, Val(particle["pdg_"]))
                /\ ~PDGValid(Val(particle["pdg_"]))
                      => got.val \in {PyNone, PyBool(FALSE)}

\* a record built with the invalid code 9 was given the code 2212 and then
\* asked whether it is a baryon
C28_Witness ==
    /\ alive /\ particle_input.input_format = Some("JETSCAPE")
    /\ Val(particle_input.particle_array)[2] = 9
    /\ particle["pdg_"] = Some(2212) /\ particle["pdg_valid_"] = Some(TRUE)
    /\ got = [op |-> "query", name |-> "is_baryon", err |-> "none",
              val |-> PyBool(TRUE), warn |-> FALSE]

\* the options pass the checks made before the particle type is taken:
\* known keys, and an events pair or number that is not negative and in
\* order
PassesEarlyChecks(kw) ==
    /\ ~kw.other
    /\ kw.events.t = "tuple"
          => kw.events.a <= kw.events.b /\ kw.events.a >= 0 /\ kw.events.b >= 0
    /\ kw.events.t = "int" => kw.events.a >= 0

\* the call gives a valid particle type and gets as far as taking it
GivesType(kw) ==
    /\ PassesEarlyChecks(kw)
    /\ kw.particletype.t = "str"
    /\ kw.particletype.v \in {"hadron", "parton"}

KeywordOf(ptype) == IF ptype = "hadron" THEN "N_hadrons" ELSE "N_partons"

\* C29: the particle type of a loader is sticky across load calls: it is
\* 'hadron' after construction, a load call with a valid particletype sets
\* it, and a later load call without a particletype keeps the type and the
\* boundary keyword of the most recent call that gave one and does not go
\* back to 'hadron'; after a load the particle type and the keyword agree
\* (hadron with N_hadrons, parton with N_partons).
C29_StickyParticleType ==
    [][/\ loads = 0 => particle_type_ = "hadron"
       /\ particle_type_'
             = (IF GivesType(kwargs') THEN kwargs'.particletype.v
                ELSE particle_type_)
       /\ particle_type_defining_string_'
             = (IF indexed' THEN KeywordOf(particle_type_')
                ELSE particle_type_defining_string_)
       /\ particle_type_defining_string_' # "unset"
             => particle_type_defining_string_' = KeywordOf(particle_type_')
      ]_vars

\* the second of two loads gave no particletype and read partons
C29_Witness ==
    /\ loads = 2 /\ Returned /\ kwargs.particletype = AbsentType
    /\ particle_type_ = "parton"
    /\ particle_type_defining_string_ = "N_partons"
    /\ file \in PartonFiles /\ ret.num_events = 2

\* what the call load(**kw) gives on a loader of the particle type ptype
\* that no load has been made on; a load changes the particle type only to
\* the one its options give, so the type after the call stands for the
\* type before it
FreshLoad(ptype, kw) == load(file, ptype, "unset", <<>>, 0, kw)

\* C30: load is repeatable on one loader: for an unchanged file, a load with
\* the options of the load before it returns the same events, event count
\* and table, since every load makes the index pass again; the truncated
\* table and the post-filter counts an earlier load left, whatever its
\* options, have no influence on the window of lines or on the result of a
\* later load.
C30_LoadRepeatable ==
    /\ [](Called
           => LET fresh == FreshLoad(particle_type_, kwargs)
              IN  /\ ret = fresh.ret
                  /\ indexed
                        => /\ num_events_ = fresh.nev
                           /\ num_output_per_event_ = fresh.nope)
    /\ [][(loads >= 1 /\ kwargs' = kwargs)
           => /\ ret' = ret
              /\ indexed'
                    => /\ num_events_' = num_events_
                       /\ num_output_per_event_' = num_output_per_event_
          ]_vars

\* the second of two loads read the second event of a file of two events
\* through a filter and left a table of one row
C30_Witness ==
    /\ loads = 2 /\ Returned
    /\ kwargs = Kwargs(IntEvents(1), Filters(<<PtCut>>), AbsentType, FALSE)
    /\ NumFileEvents(file) = 2 /\ WellFormedForType
    /\ Len(num_output_per_event_) = 1 /\ ret.num_events = 1
    /\ Len(ret.particle_list) = 1

====
